---- MODULE Spec2Model ----
(***************************************************************************)
(* Model of dayflow_cli: the activity-driven capture loop of main.py, the  *)
(* audio thread of src/core/recording_logic.py, the ScreenRecorder class   *)
(* of src/core/recorder.py and the two audio mixers; the CsvLogger of      *)
(* src/utils/file_handler.py over several sessions, wait_until_active of   *)
(* src/api/files.py, and the webcam overlay of record_frame.               *)
(*                                                                         *)
(* Time is counted in ticks of 0.1 s.  Audio samples are counted in        *)
(* quarters: the integer v stands for the float sample v / 4.             *)
(***************************************************************************)
EXTENDS Integers, Sequences, FiniteSets, TLC

VARIABLES
    \* ---- main.py: start_logging_and_recording --------------------------
    pc,                  \* position of the main thread
    since_frame,         \* time.time() - last_frame_time, in ticks, counted up
                         \* to CadenceTicks ("1.0 s or more")
    last_state,          \* main.py:23
    recording_started,   \* main.py:48
    video_frames,        \* main.py:29
    rows,                \* rows written to activity_log.csv by this session
    log_open,            \* the CsvLogger's file handle is open
    webcam,              \* "none" | "open" | "released"
    stop_recording_flag, \* main.py:43
    exc,                 \* exception that left the capture loop, "none" if none
    output,              \* what the final encode did
    \* ---- recording_logic.py: _record_audio (the audio thread) ----------
    apc,                 \* position of the audio thread
    temp_audio,          \* temp_audio.wav: [exists, open, nframes, fresh]
    pcm_data,            \* the block the thread is about to write
    \* ---- observation of the run (history, not program state) -----------
    poll,                \* what the current loop iteration has done so far
    valid_obs,           \* the latest observation whose application is not None
    changes,             \* how often the non-None observation changed
    audio_log,           \* what the audio thread has done so far
    \* ---- recorder.py: ScreenRecorder ------------------------------------
    rec,                 \* the ScreenRecorder object's fields
    rthreads,            \* position of every audio thread started so far
    rcaller,             \* position of the (single) caller of the recorder
    rfile,               \* TEMP_AUDIO_FILENAME as the recorder sees it
    before,              \* the object's fields when the last call was entered
    last_call,           \* the last method called
    routput,             \* what save_recording did
    \* ---- the mixers, applied to one pair of chunks ----------------------
    mix_in,              \* the pair of chunks read, and the implementation
    mix_out,             \* what the implementation wrote for it
    \* ---- file_handler.py: CsvLogger, over sessions on one file name -----
    csv_file,            \* the file: [exists, rows]
    csv_logger,          \* "none" | "open" | "closed": the current session's logger
    csv_written,         \* every data row written so far, in order (history)
    csv_sessions,        \* sessions opened so far
    \* ---- files.py: wait_until_active -----------------------------------
    wpc,                 \* "poll" | "sleep" | "returned" | "raised"
    wclock,              \* time.time() since the call, in ticks
    wdeadline,           \* deadline = time.time() + timeout_s, in ticks
    wstate,              \* state of the most recent poll
    wpolls,              \* polls made so far (history)
    wresult,             \* what the call returned or raised
    \* ---- record_frame: the webcam overlay on one frame ------------------
    blit_in,             \* sizes of the resized screen and the scaled webcam
    blit_out             \* what the slice assignment did

vars_main == <<pc, since_frame, last_state, recording_started,
               video_frames, rows, log_open, webcam, stop_recording_flag,
               exc, output, apc, temp_audio, pcm_data,
               poll, valid_obs, changes, audio_log>>
vars_rec == <<rec, rthreads, rcaller, rfile, before, last_call, routput>>
vars_mix == <<mix_in, mix_out>>
vars_log == <<csv_file, csv_logger, csv_written, csv_sessions>>
vars_wait == <<wpc, wclock, wdeadline, wstate, wpolls, wresult>>
vars_blit == <<blit_in, blit_out>>
vars_aux == <<vars_log, vars_wait, vars_blit>>
vars == <<vars_main, vars_rec, vars_mix, vars_aux>>

----------------------------------------------------------------------------
\* Bounds of the model.

\* The loop is interrupted at the latest after this many polls.
MaxPolls == 3
\* Longest chunk a device read returns (chunk_size frames in the code).
MaxChunk == 2
\* Frames counted in the temporary WAV file before the count saturates.
MaxWav == 2
\* Calls made on one ScreenRecorder.
MaxCalls == 5
\* Sessions (process starts) of the CsvLogger on one file name.
MaxSessions == 3
\* Data rows written to the log over all sessions.
MaxCsvRows == 3
\* Longest timeout_s given to wait_until_active, in ticks of its clock.
MaxTimeout == 3
\* Largest width or height of a resized screen or a scaled webcam frame, in
\* cells of WEBCAM_MARGIN pixels.
MaxDim == 3

\* Program constants, in ticks of 0.1 s.
CadenceTicks == 10      \* main.py:69, "current_time - last_frame_time >= 1.0"
SleepTicks == 1         \* main.py:73, time.sleep(0.1)
\* recording_logic.py:13, the margin of the overlay, as one cell.
WEBCAM_MARGIN == 1

None == "None"
Min(a, b) == IF a <= b THEN a ELSE b

----------------------------------------------------------------------------
\* src/core/activity.py: what get_active_window_info can return.

UrlPlaceholder == "URL detection requires advanced implementation"

\* activity.py:36, the all-None tuple of the except branch.
UnreadableState == <<None, None, None, None>>

\* activity.py:32, some tuples of the normal return.
ReadableStates ==
    { <<"code.exe", "file.txt - Code", None, "file.txt">>,
      <<"chrome.exe", "Home", UrlPlaceholder, None>> }

get_active_window_info == ReadableStates \cup {UnreadableState}

----------------------------------------------------------------------------
\* The audio mixers.  A chunk is what recorder.record(numframes) returns: a
\* two-dimensional array of n frames of ch channels.

Samples == <<-4, -2, 0, 2, 4, 6>>
ChannelCounts == {0, 1, 2, 3, 6}
Bases == {0, 1}

SampleAt(base, i, c) == Samples[((base + i + 2 * c) % Len(Samples)) + 1]

DeviceChunk(n, ch, base) ==
    [n |-> n, ch |-> ch,
     data |-> [i \in 1..n |-> [c \in 1..ch |-> SampleAt(base, i, c)]]]

Chunks == { DeviceChunk(n, ch, b) : n \in 0..MaxChunk, ch \in ChannelCounts, b \in Bases }

\* data[:k]
FirstRows(chunk, k) ==
    [n |-> Min(k, chunk.n), ch |-> chunk.ch,
     data |-> [i \in 1..Min(k, chunk.n) |-> chunk.data[i]]]

\* data[:, :k]
Channels(chunk, k) ==
    [n |-> chunk.n, ch |-> Min(k, chunk.ch),
     data |-> [i \in 1..chunk.n |-> [c \in 1..Min(k, chunk.ch) |-> chunk.data[i][c]]]]

\* np.repeat(mixed, 2, axis=1) of a one-channel array
RepeatMono(chunk) ==
    [n |-> chunk.n, ch |-> 2,
     data |-> [i \in 1..chunk.n |-> [c \in 1..2 |-> chunk.data[i][1]]]]

\* numpy's a + b of two arrays with as many rows: the shapes broadcast when
\* the channel counts are equal or one of them is 1.
Broadcasts(a, b) == a.ch = b.ch \/ a.ch = 1 \/ b.ch = 1
BroadcastCh(a, b) == IF a.ch = 1 THEN b.ch ELSE a.ch
Pick(chunk, i, c) == IF chunk.ch = 1 THEN chunk.data[i][1] ELSE chunk.data[i][c]

\* (a + b) / 2.0, elementwise; sums of the samples drawn are even, so the
\* halving is exact.
Average(a, b) ==
    [n |-> a.n, ch |-> BroadcastCh(a, b),
     data |-> [i \in 1..a.n |->
                 [c \in 1..BroadcastCh(a, b) |-> (Pick(a, i, c) + Pick(b, i, c)) \div 2]]]

\* np.clip(x, -1.0, 1.0)
Clip(v) == IF v < -4 THEN -4 ELSE IF v > 4 THEN 4 ELSE v
\* (x * 32767).astype(np.int16): the conversion truncates toward zero.
ToInt16(v) == IF v >= 0 THEN (v * 32767) \div 4 ELSE -(((-v) * 32767) \div 4)

Pcm(chunk) ==
    [n |-> chunk.n, ch |-> chunk.ch,
     data |-> [i \in 1..chunk.n |-> [c \in 1..chunk.ch |-> ToInt16(Clip(chunk.data[i][c]))]]]

Skip == [kind |-> "skip"]
Raised == [kind |-> "raised"]
Block(chunk) == [kind |-> "block", block |-> chunk]

\* recording_logic.py:56-82, from the two chunks read to the block handed to
\* wav_file.writeframes, or Skip for the "continue" of lines 58 and 69.
MixLogicStereo(mixed) ==
    IF mixed.ch = 1 THEN RepeatMono(mixed)
    ELSE IF mixed.ch > 2 THEN Channels(mixed, 2)
    ELSE mixed

MixLogic(loopback_data, mic_data) ==
    LET min_len == Min(loopback_data.n, mic_data.n)
        loopback_chunk == FirstRows(loopback_data, min_len)
        mic_chunk == FirstRows(mic_data, min_len)
        min_channels == Min(loopback_chunk.ch, mic_chunk.ch)
    IN  IF min_len = 0 THEN Skip
        ELSE IF min_channels = 0 THEN Skip
        ELSE Block(Pcm(MixLogicStereo(
                 Average(Channels(loopback_chunk, min_channels),
                         Channels(mic_chunk, min_channels)))))

\* recorder.py:75-83, likewise; Raised when the addition of line 78 raises
\* (shapes that do not broadcast), which the handler of line 86 swallows.
MixRecorderStereo(mixed) ==
    IF mixed.ch = 1 THEN RepeatMono(mixed) ELSE mixed

MixRecorder(loopback_data, mic_data) ==
    LET min_len == Min(loopback_data.n, mic_data.n)
        a == FirstRows(loopback_data, min_len)
        b == FirstRows(mic_data, min_len)
    IN  IF min_len = 0 THEN Skip
        ELSE IF ~Broadcasts(a, b) THEN Raised
        ELSE Block(Pcm(MixRecorderStereo(Average(a, b))))

\* wave.Wave_write.writeframes on a file set to 2 channels of 2 bytes: the
\* samples go to the file as they come, and every 2 samples count as a frame.
Interleaved(block) ==
    [k \in 1..(block.n * block.ch) |->
        block.data[((k - 1) \div block.ch) + 1][((k - 1) % block.ch) + 1]]

----------------------------------------------------------------------------
\* main.py: start_logging_and_recording, with the audio thread of
\* recording_logic.py running beside it.

\* Python's None where a tuple may stand (last_state = None, main.py:23).
NoState == <<>>

\* The record of one loop iteration: the state observed, last_state and
\* recording_started as the iteration found them, whether line 55 took its
\* branch, whether a row was written, how often record_frame was called,
\* whether the test of line 69 was met, and how long the last call took.
NoPoll == [n |-> 0, obs |-> UnreadableState, prev |-> NoState, started |-> FALSE,
           transition |-> FALSE, logged |-> FALSE, captures |-> 0, due |-> FALSE,
           took |-> 0, stage |-> "none"]

\* The record of an audio thread: whether its setup worked, the loop tests
\* passed and the chunks written after the stop flag was set, how the last
\* iteration ended, and whether the thread left its loop on seeing the flag.
NoAudioLog == [setup |-> "none", setup_ok |-> FALSE, tests |-> 0, writes |-> 0,
               chunk |-> "none", exit_flag |-> FALSE]
NoFile == [exists |-> FALSE, open |-> FALSE, nframes |-> 0, fresh |-> FALSE]
\* A file an earlier session left behind (its encode failed or was skipped).
StaleFile == [exists |-> TRUE, open |-> FALSE, nframes |-> 1, fresh |-> FALSE]
NoOutput == [status |-> "none", audio |-> FALSE, nframes |-> 0, frames |-> <<>>]

\* Variants of the test of main.py:55 with one operand lost.
IsTransitionAppOnly(current_state, last) == current_state[1] # None
IsTransitionAnyChange(current_state, last) == current_state # last

\* main.py:55
IsTransition(current_state, last) == current_state # last /\ current_state[1] # None

\* main.py:56-57: the row is the timestamp and the four fields; the model
\* keeps the four fields.
Row(current_state) == current_state

\* The clock after d more ticks.
Later(since, d) == Min(CadenceTicks, since + d)

\* What one call of record_frame can do: how long it takes, and whether the
\* screen grab works, whether webcam.read() returns a frame, or whether
\* Ctrl+C arrives while it runs.
CaptureOutcomes ==
    [d : {0, CadenceTicks}, result : {"frame", "no_webcam_frame", "grab_failed", "interrupted"}]

\* recording_logic.py:94-130.  The overlay and the timestamp are drawn only
\* inside "if webcam: ... if ret:".
Frame(cam, out) ==
    [overlay |-> (cam = "open" /\ out.result = "frame"),
     stamp |-> (cam = "open" /\ out.result = "frame")]

\* The call "record_frame(video_frames, screen_size, webcam, webcam_w,
\* webcam_h)" of main.py:64 and 71.  webcam_w and webcam_h are assigned only
\* when the webcam opened (main.py:36-38), so with no webcam the call raises
\* UnboundLocalError before record_frame is entered.
CallRaises(cam, out) ==
    IF cam = "none" THEN "UnboundLocalError"
    ELSE IF out.result = "grab_failed" THEN "OSError"
    ELSE IF out.result = "interrupted" THEN "KeyboardInterrupt"
    ELSE "none"

CallInvokes(cam) == cam # "none"

CallFrames(frames, cam, out) ==
    IF CallRaises(cam, out) = "none" THEN Append(frames, Frame(cam, out)) ELSE frames

CallTime(cam, out) == IF cam = "none" THEN 0 ELSE out.d

InitMain ==
    /\ pc = "poll"
    /\ since_frame = CadenceTicks    \* last_frame_time = 0, main.py:47
    /\ last_state = NoState
    /\ recording_started = FALSE
    /\ video_frames = <<>>
    /\ rows = <<>>
    /\ log_open = TRUE
    /\ webcam \in {"none", "open"}
    /\ stop_recording_flag = FALSE
    /\ exc = "none"
    /\ output = NoOutput
    /\ apc = "setup"
    /\ temp_audio \in {NoFile, StaleFile}
    /\ pcm_data = Skip
    /\ poll = NoPoll
    /\ valid_obs = NoState
    /\ changes = 0
    /\ audio_log = NoAudioLog

\* main.py:52-64, the first half of one iteration.
PollTransition ==
    /\ pc = "poll"
    /\ poll.n < MaxPolls
    /\ \E current_state \in get_active_window_info, out \in CaptureOutcomes :
        LET fires == IsTransition(current_state, last_state)
            raised == IF fires THEN CallRaises(webcam, out) ELSE "none"
        IN  /\ rows' = IF fires THEN Append(rows, Row(current_state)) ELSE rows
            /\ last_state' = IF fires THEN current_state ELSE last_state
            /\ recording_started' = (recording_started \/ fires)
            /\ video_frames' = IF fires THEN CallFrames(video_frames, webcam, out)
                               ELSE video_frames
            \* last_frame_time = time.time() (line 63), then the call (line 64)
            /\ since_frame' = IF fires THEN Later(0, CallTime(webcam, out))
                               ELSE since_frame
            /\ exc' = raised
            /\ pc' = IF raised = "none" THEN "cadence" ELSE "finally"
            /\ poll' = [n |-> poll.n + 1, obs |-> current_state, prev |-> last_state,
                        started |-> recording_started,
                        transition |-> fires, logged |-> (rows' # rows),
                        captures |-> IF fires /\ CallInvokes(webcam) THEN 1 ELSE 0,
                        due |-> FALSE,
                        took |-> IF fires THEN CallTime(webcam, out) ELSE 0,
                        stage |-> "transition"]
            /\ valid_obs' = IF current_state[1] # None THEN current_state ELSE valid_obs
            /\ changes' = IF current_state[1] # None /\ current_state # valid_obs
                          THEN changes + 1 ELSE changes
    /\ UNCHANGED <<log_open, webcam, stop_recording_flag, output, apc, temp_audio,
                   pcm_data, audio_log,
                   vars_rec, vars_mix, vars_aux>>

\* A variant of the test of main.py:69 with > for >=.
CadenceDueStrict(since) == since > CadenceTicks

\* main.py:67-71, the second half.
CadenceDue(since) == since >= CadenceTicks

PollCadence ==
    /\ pc = "cadence"
    /\ \E out \in CaptureOutcomes :
        LET fires == recording_started /\ CadenceDue(since_frame)
            raised == IF fires THEN CallRaises(webcam, out) ELSE "none"
        IN  /\ video_frames' = IF fires THEN CallFrames(video_frames, webcam, out)
                               ELSE video_frames
            \* last_frame_time = current_time (line 70), then the call (line 71)
            /\ since_frame' = IF fires THEN Later(0, CallTime(webcam, out))
                               ELSE since_frame
            /\ exc' = raised
            /\ pc' = IF raised = "none" THEN "sleep" ELSE "finally"
            /\ poll' = [poll EXCEPT
                          !.captures = IF fires /\ CallInvokes(webcam) THEN @ + 1 ELSE @,
                          !.due = recording_started /\ since_frame >= CadenceTicks,
                          !.took = IF fires THEN CallTime(webcam, out) ELSE @,
                          !.stage = "cadence"]
    /\ UNCHANGED <<last_state, recording_started, rows, log_open, webcam,
                   stop_recording_flag, output, apc, temp_audio, pcm_data,
                   valid_obs, changes, audio_log,
                   vars_rec, vars_mix, vars_aux>>

\* main.py:73.  time.sleep(0.1) returns after 0.1 s, or later when the
\* process is not scheduled.
SleepDurations == {SleepTicks, CadenceTicks}

Sleep ==
    /\ pc = "sleep"
    /\ poll.n < MaxPolls
    /\ \E d \in SleepDurations : since_frame' = Later(since_frame, d)
    /\ pc' = "poll"
    /\ poll' = [NoPoll EXCEPT !.n = poll.n]
    /\ UNCHANGED <<last_state, recording_started, video_frames, rows,
                   log_open, webcam, stop_recording_flag, exc, output, apc, temp_audio,
                   pcm_data, valid_obs, changes, audio_log,
                   vars_rec, vars_mix, vars_aux>>

\* main.py:75-76: Ctrl+C while the loop sleeps.
Interrupt ==
    /\ pc = "sleep"
    /\ exc' = "KeyboardInterrupt"
    /\ pc' = "finally"
    /\ UNCHANGED <<since_frame, last_state, recording_started, video_frames,
                   rows, log_open, webcam, stop_recording_flag, output, apc, temp_audio,
                   pcm_data, poll, valid_obs, changes, audio_log,
                   vars_rec, vars_mix, vars_aux>>

\* main.py:78
SetStopFlag ==
    /\ pc = "finally"
    /\ stop_recording_flag' = TRUE
    /\ pc' = "release"
    /\ poll' = [NoPoll EXCEPT !.n = poll.n]
    /\ UNCHANGED <<since_frame, last_state, recording_started, video_frames,
                   rows, log_open, webcam, exc, output, apc, temp_audio, pcm_data,
                   valid_obs, changes, audio_log,
                   vars_rec, vars_mix, vars_aux>>

\* main.py:79-80
ReleaseWebcam ==
    /\ pc = "release"
    /\ webcam' = IF webcam = "open" THEN "released" ELSE webcam
    /\ pc' = "join"
    /\ UNCHANGED <<since_frame, last_state, recording_started, video_frames,
                   rows, log_open, stop_recording_flag, exc, output, apc, temp_audio,
                   pcm_data, poll, valid_obs, changes, audio_log,
                   vars_rec, vars_mix, vars_aux>>

\* A join that does not wait.
JoinableAlways(thread_pc) == TRUE

\* main.py:81: audio_thread.join() returns once the thread has ended.
Joinable(thread_pc) == thread_pc = "done"

JoinAudio ==
    /\ pc = "join"
    /\ Joinable(apc)
    /\ pc' = "close_log"
    /\ UNCHANGED <<since_frame, last_state, recording_started, video_frames,
                   rows, log_open, webcam, stop_recording_flag, exc, output, apc,
                   temp_audio, pcm_data, poll, valid_obs, changes, audio_log,
                   vars_rec, vars_mix, vars_aux>>

\* main.py:83
CloseLog ==
    /\ pc = "close_log"
    /\ log_open' = FALSE
    /\ pc' = "encode"
    /\ UNCHANGED <<since_frame, last_state, recording_started, video_frames,
                   rows, webcam, stop_recording_flag, exc, output, apc, temp_audio,
                   pcm_data, poll, valid_obs, changes, audio_log,
                   vars_rec, vars_mix, vars_aux>>

\* main.py:88-102.  The muxer either writes the output or raises, when the
\* audio clip is opened or while the video file is written.
MuxOutcomes == {"ok", "raises"}

\* An encode without the test of main.py:88.
EncodedNoSkip(frames, file, mux) ==
    [status |-> IF mux = "ok" THEN "saved" ELSE "failed",
     audio |-> file.exists,
     nframes |-> IF file.exists THEN file.nframes ELSE 0,
     frames |-> frames]

\* What the encode leaves in `output`: status "skipped" (no frames), "saved"
\* or "failed"; audio says whether the temporary file was attached (the test
\* of line 91 is os.path.exists alone), nframes how many sample frames that
\* file held, frames what the clip was built from.
Encoded(frames, file, mux) ==
    IF frames = <<>>
    THEN [status |-> "skipped", audio |-> FALSE, nframes |-> 0, frames |-> <<>>]
    ELSE [status |-> IF mux = "ok" THEN "saved" ELSE "failed",
          audio |-> file.exists,
          nframes |-> IF file.exists THEN file.nframes ELSE 0,
          frames |-> frames]

\* An encode that removes the temporary file whatever the mux did.
AfterEncodeAlways(frames, file, mux) == IF file.exists THEN NoFile ELSE file

\* os.remove(temp_audio_file), main.py:95, after a mux with audio that worked.
AfterEncode(frames, file, mux) ==
    IF frames # <<>> /\ file.exists /\ mux = "ok" THEN NoFile ELSE file

\* An encode whose handler of line 101 is missing.
EncodeEndsUncaught(e, mux) ==
    IF mux = "raises" THEN "raised"
    ELSE IF e = "KeyboardInterrupt" THEN "done" ELSE "raised"

\* How start_logging_and_recording ends.  What the muxer raises is caught at
\* main.py:101; after the finally block an exception that left the loop,
\* other than the KeyboardInterrupt caught at line 75, goes on to the caller.
EncodeEnds(e, mux) == IF e = "KeyboardInterrupt" THEN "done" ELSE "raised"

Encode ==
    /\ pc = "encode"
    /\ \E mux \in MuxOutcomes :
        /\ output' = Encoded(video_frames, temp_audio, mux)
        /\ temp_audio' = AfterEncode(video_frames, temp_audio, mux)
        /\ pc' = EncodeEnds(exc, mux)
    /\ UNCHANGED <<since_frame, last_state, recording_started, video_frames,
                   rows, log_open, webcam, stop_recording_flag, exc, apc, pcm_data,
                   poll, valid_obs, changes, audio_log,
                   vars_rec, vars_mix, vars_aux>>

----------------------------------------------------------------------------
\* recording_logic.py: _record_audio, the thread started at main.py:44-45.

\* recording_logic.py:18-47.  Setup ends the thread when no loopback device
\* or no default microphone is found (lines 27-34) or when a call of lines
\* 21-42 raises (sc.default_microphone, a recorder, wave.open), which line 89
\* catches; otherwise the file is created, empty.
SetupOutcomes == {"ok", "no_loopback", "no_microphone", "raises"}

NewFile == [exists |-> TRUE, open |-> TRUE, nframes |-> 0, fresh |-> TRUE]

AudioSetup ==
    /\ apc = "setup"
    /\ \E setup \in SetupOutcomes :
        /\ apc' = IF setup = "ok" THEN "test" ELSE "done"
        /\ temp_audio' = IF setup = "ok" THEN NewFile ELSE temp_audio
        /\ audio_log' = [audio_log EXCEPT !.setup = setup, !.setup_ok = (setup = "ok")]
    /\ UNCHANGED <<pc, since_frame, last_state, recording_started,
                   video_frames, rows, log_open, webcam, stop_recording_flag, exc,
                   output, pcm_data, poll, valid_obs, changes,
                   vars_rec, vars_mix, vars_aux>>

\* A loop that never looks at the flag.
LoopGoesOnAlways(flag) == TRUE

\* recording_logic.py:49: "while not stop_recording_flag.is_set()".  When
\* the test fails the with block is left and the file is closed; when it
\* passes the blocking reads of lines 52-53 begin.
LoopGoesOn(flag) == ~flag

AudioTest ==
    /\ apc = "test"
    /\ IF LoopGoesOn(stop_recording_flag)
       THEN /\ apc' = "reading"
            /\ temp_audio' = temp_audio
       ELSE /\ apc' = "done"
            /\ temp_audio' = [temp_audio EXCEPT !.open = FALSE]
    /\ audio_log' = [audio_log EXCEPT
                        !.tests = IF stop_recording_flag /\ apc' = "reading"
                                  THEN @ + 1 ELSE @,
                        !.chunk = "none",
                        !.exit_flag = IF apc' = "done" THEN stop_recording_flag ELSE @]
    /\ UNCHANGED <<pc, since_frame, last_state, recording_started,
                   video_frames, rows, log_open, webcam, stop_recording_flag, exc,
                   output, pcm_data, poll, valid_obs, changes,
                   vars_rec, vars_mix, vars_aux>>

\* The chunks the two devices of this session deliver: a stereo loopback and
\* a mono microphone, each up to MaxChunk frames.
LoopbackReads == { DeviceChunk(n, 2, 0) : n \in {0, MaxChunk} }
MicReads == { DeviceChunk(n, 1, 1) : n \in {0, MaxChunk} }

\* What lines 52-82 can hand to line 83 on these reads, and the handler of
\* line 85 when a read or the mixing raises.
ChunkResults == { MixLogic(l, m) : l \in LoopbackReads, m \in MicReads } \cup {Raised}

\* recording_logic.py:50-87.  The reads return and the chunks are mixed, or
\* something raises and the handler of line 85 goes to the next iteration.
\* A handler that leaves the loop ("break" for "continue").
AfterReadBreaks(result) ==
    IF result.kind = "block" THEN "write"
    ELSE IF result.kind = "raised" THEN "done" ELSE "test"

AfterRead(result) == IF result.kind = "block" THEN "write" ELSE "test"

\* How an iteration that stops after its reads ended.
Ended(result) == IF result.kind = "raised" THEN "failed" ELSE "skipped"

AudioRead ==
    /\ apc = "reading"
    /\ \E result \in ChunkResults :
        /\ pcm_data' = result
        /\ apc' = AfterRead(result)
        /\ audio_log' = [audio_log EXCEPT
                            !.chunk = IF result.kind = "block" THEN @ ELSE Ended(result)]
    /\ UNCHANGED <<pc, since_frame, last_state, recording_started,
                   video_frames, rows, log_open, webcam, stop_recording_flag, exc,
                   output, temp_audio, poll, valid_obs, changes,
                   vars_rec, vars_mix, vars_aux>>

\* recording_logic.py:83: wav_file.writeframes, which may raise (line 85).
\* The file counts a frame for every 2 samples of 2 bytes.
FramesIn(block) == (block.n * block.ch) \div 2

Written(file, block, ok) ==
    IF ok THEN [file EXCEPT !.nframes = Min(MaxWav, @ + FramesIn(block))] ELSE file

AudioWrite ==
    /\ apc = "write"
    /\ \E ok \in BOOLEAN :
        /\ temp_audio' = Written(temp_audio, pcm_data.block, ok)
        /\ audio_log' = [audio_log EXCEPT
                            !.writes = IF stop_recording_flag /\ ok THEN @ + 1 ELSE @,
                            !.chunk = IF ok THEN "written" ELSE "failed"]
    /\ pcm_data' = Skip
    /\ apc' = "test"
    /\ UNCHANGED <<pc, since_frame, last_state, recording_started,
                   video_frames, rows, log_open, webcam, stop_recording_flag, exc,
                   output, poll, valid_obs, changes,
                   vars_rec, vars_mix, vars_aux>>

AudioThread == AudioSetup \/ AudioTest \/ AudioRead \/ AudioWrite
Finally == SetStopFlag \/ ReleaseWebcam \/ JoinAudio \/ CloseLog \/ Encode


----------------------------------------------------------------------------
\* recorder.py: class ScreenRecorder, driven by one caller.  `sc` is the
\* module's soundcard import (recorder.py:19-23), FALSE when it failed.

\* recorder.py:27-41
NewRecorder(screen, cam, sc) ==
    [is_recording |-> FALSE, video_frames |-> <<>>, audio_thread |-> 0,
     stop_event |-> FALSE, screen_available |-> screen, webcam |-> cam,
     sc |-> sc, releases |-> 0]

\* The fields claims about a call compare, with the number of threads started.
Fields(r, threads) ==
    [is_recording |-> r.is_recording, video_frames |-> r.video_frames,
     audio_thread |-> r.audio_thread, stop_event |-> r.stop_event,
     threads_started |-> Len(threads)]

NewThread == [pc |-> "setup", pcm |-> Skip, log |-> NoAudioLog]

Called(name) == [name |-> name, n |-> last_call.n + 1, raised |-> "none"]

InitRec ==
    /\ \E screen \in BOOLEAN, cam \in {"none", "open"}, sc \in BOOLEAN :
         rec = NewRecorder(screen, cam, sc)
    /\ rthreads = <<>>
    /\ rcaller = "idle"
    /\ rfile \in {NoFile, StaleFile}
    /\ before = Fields(rec, rthreads)
    /\ last_call = [name |-> "__init__", n |-> 0, raised |-> "none"]
    /\ routput = NoOutput

\* start_recording without the test of line 128.
StartRecordingAlways(r, threads) ==
    IF ~r.screen_available THEN <<r, threads>>
    ELSE IF r.sc
         THEN <<[r EXCEPT !.is_recording = TRUE, !.stop_event = FALSE,
                          !.audio_thread = Len(threads) + 1],
                Append(threads, NewThread)>>
         ELSE <<[r EXCEPT !.is_recording = TRUE, !.stop_event = FALSE], threads>>

\* start_recording without the test of line 125.
StartRecordingAnyScreen(r, threads) ==
    IF r.is_recording THEN <<r, threads>>
    ELSE IF r.sc
         THEN <<[r EXCEPT !.is_recording = TRUE, !.stop_event = FALSE,
                          !.audio_thread = Len(threads) + 1],
                Append(threads, NewThread)>>
         ELSE <<[r EXCEPT !.is_recording = TRUE, !.stop_event = FALSE], threads>>

\* recorder.py:124-139
StartRecording(r, threads) ==
    IF ~r.screen_available THEN <<r, threads>>
    ELSE IF r.is_recording THEN <<r, threads>>
    ELSE IF r.sc
         THEN <<[r EXCEPT !.is_recording = TRUE, !.stop_event = FALSE,
                          !.audio_thread = Len(threads) + 1],
                Append(threads, NewThread)>>
         ELSE <<[r EXCEPT !.is_recording = TRUE, !.stop_event = FALSE], threads>>

start_recording ==
    /\ rcaller = "idle"
    /\ last_call.n < MaxCalls
    /\ rec' = StartRecording(rec, rthreads)[1]
    /\ rthreads' = StartRecording(rec, rthreads)[2]
    /\ before' = Fields(rec, rthreads)
    /\ last_call' = Called("start_recording")
    /\ UNCHANGED <<rcaller, rfile, routput,
                   vars_main, vars_mix, vars_aux>>

\* recorder.py:150-151
Released(r) ==
    IF r.webcam = "none" THEN r
    ELSE [r EXCEPT !.webcam = "released", !.releases = @ + 1]

\* recorder.py:141-149, up to the join; without an audio thread the call
\* runs to its end at once.
stop_recording ==
    /\ rcaller = "idle"
    /\ last_call.n < MaxCalls
    /\ IF ~rec.is_recording
       THEN rec' = rec /\ rcaller' = rcaller
       ELSE IF rec.audio_thread # 0
            THEN /\ rec' = [rec EXCEPT !.is_recording = FALSE, !.stop_event = TRUE]
                 /\ rcaller' = "joining"
            ELSE /\ rec' = Released([rec EXCEPT !.is_recording = FALSE,
                                                !.stop_event = TRUE])
                 /\ rcaller' = "idle"
    /\ before' = Fields(rec, rthreads)
    /\ last_call' = Called("stop_recording")
    /\ UNCHANGED <<rthreads, rfile, routput,
                   vars_main, vars_mix, vars_aux>>

\* recorder.py:149-153: the join returns, the webcam is released.
stop_recording_joined ==
    /\ rcaller = "joining"
    /\ Joinable(rthreads[rec.audio_thread].pc)
    /\ rec' = Released(rec)
    /\ rcaller' = "idle"
    /\ UNCHANGED <<rthreads, rfile, before, last_call, routput,
                   vars_main, vars_mix, vars_aux>>

\* recorder.py:92-122.  A released VideoCapture reads no frame.
GrabOutcomes == {"frame", "no_webcam_frame", "grab_failed"}

RecorderFrame(r, out) ==
    [overlay |-> (r.webcam = "open" /\ out = "frame"),
     stamp |-> (r.webcam = "open" /\ out = "frame")]

RecordFrame(r, out) ==
    IF ~r.screen_available THEN r
    ELSE IF out = "grab_failed" THEN r
    ELSE [r EXCEPT !.video_frames = Append(@, RecorderFrame(r, out))]

\* recorder.py:97: ImageGrab.grab() is called outside any try, so what it
\* raises leaves record_frame.
RecordRaises(r, out) ==
    IF r.screen_available /\ out = "grab_failed" THEN "OSError" ELSE "none"

record_frame ==
    /\ rcaller = "idle"
    /\ last_call.n < MaxCalls
    /\ \E out \in GrabOutcomes :
        /\ rec' = RecordFrame(rec, out)
        /\ last_call' = [Called("record_frame") EXCEPT !.raised = RecordRaises(rec, out)]
    /\ before' = Fields(rec, rthreads)
    /\ UNCHANGED <<rthreads, rcaller, rfile, routput,
                   vars_main, vars_mix, vars_aux>>

\* recorder.py:155-174.  
save_recording ==
    /\ rcaller = "idle"
    /\ last_call.n < MaxCalls
    /\ \E mux \in MuxOutcomes :
        /\ routput' = Encoded(rec.video_frames, rfile, mux)
        /\ rfile' = AfterEncode(rec.video_frames, rfile, mux)
    /\ before' = Fields(rec, rthreads)
    /\ last_call' = Called("save_recording")
    /\ UNCHANGED <<rec, rthreads, rcaller,
                   vars_main, vars_mix, vars_aux>>

\* recorder.py:50-90: ScreenRecorder._record_audio, thread i.
RecAudioSetup(i) ==
    /\ rthreads[i].pc = "setup"
    /\ \E setup \in {"ok", "raises"} :
        /\ rthreads' = [rthreads EXCEPT ![i].pc = IF setup = "ok" THEN "test" ELSE "done",
                                        ![i].log.setup = setup,
                                        ![i].log.setup_ok = (setup = "ok")]
        /\ rfile' = IF setup = "ok" THEN NewFile ELSE rfile
    /\ UNCHANGED <<rec, rcaller, before, last_call, routput,
                   vars_main, vars_mix, vars_aux>>

\* recorder.py:70
RecAudioTest(i) ==
    /\ rthreads[i].pc = "test"
    /\ IF LoopGoesOn(rec.stop_event)
       THEN /\ rthreads' = [rthreads EXCEPT
                               ![i].pc = "reading",
                               ![i].log.chunk = "none",
                               ![i].log.tests = IF rec.stop_event THEN @ + 1 ELSE @]
            /\ rfile' = rfile
       ELSE /\ rthreads' = [rthreads EXCEPT ![i].pc = "done",
                                            ![i].log.chunk = "none",
                                            ![i].log.exit_flag = rec.stop_event]
            /\ rfile' = [rfile EXCEPT !.open = FALSE]
    /\ UNCHANGED <<rec, rcaller, before, last_call, routput,
                   vars_main, vars_mix, vars_aux>>

\* recorder.py:71-83 and 86-87
RecChunkResults == { MixRecorder(l, m) : l \in LoopbackReads, m \in MicReads } \cup {Raised}

RecAudioRead(i) ==
    /\ rthreads[i].pc = "reading"
    /\ \E result \in RecChunkResults :
        rthreads' = [rthreads EXCEPT
                       ![i].pc = AfterRead(result),
                       ![i].pcm = result,
                       ![i].log.chunk = IF result.kind = "block" THEN @ ELSE Ended(result)]
    /\ UNCHANGED <<rec, rcaller, rfile, before, last_call, routput,
                   vars_main, vars_mix, vars_aux>>

\* recorder.py:84
RecAudioWrite(i) ==
    /\ rthreads[i].pc = "write"
    /\ \E ok \in BOOLEAN :
        /\ rfile' = Written(rfile, rthreads[i].pcm.block, ok)
        /\ rthreads' = [rthreads EXCEPT
                          ![i].pc = "test",
                          ![i].pcm = Skip,
                          ![i].log.writes = IF rec.stop_event /\ ok THEN @ + 1 ELSE @,
                          ![i].log.chunk = IF ok THEN "written" ELSE "failed"]
    /\ UNCHANGED <<rec, rcaller, before, last_call, routput,
                   vars_main, vars_mix, vars_aux>>

RecAudioThread ==
    \E i \in 1..Len(rthreads) :
        RecAudioSetup(i) \/ RecAudioTest(i) \/ RecAudioRead(i) \/ RecAudioWrite(i)

----------------------------------------------------------------------------
\* The mixers alone: one pair of chunks, one implementation, one result.

InitMix ==
    /\ mix_in \in [impl : {"recording_logic", "ScreenRecorder"},
                   loopback_data : Chunks, mic_data : Chunks]
    /\ mix_out = [kind |-> "pending"]

Mix(in) ==
    IF in.impl = "recording_logic"
    THEN MixLogic(in.loopback_data, in.mic_data)
    ELSE MixRecorder(in.loopback_data, in.mic_data)

MixChunks ==
    /\ mix_out.kind = "pending"
    /\ mix_out' = Mix(mix_in)
    /\ UNCHANGED <<mix_in, vars_main, vars_rec, vars_aux>>

----------------------------------------------------------------------------
\* file_handler.py: CsvLogger, as main.py:21-22 constructs it, over several
\* sessions (process starts) on the same file name.

\* main.py:21
Header == <<"Timestamp", "Application", "Window Title", "URL", "File Path">>

\* main.py:56-57: [timestamp] + list(current_state)
DataRows == { <<"timestamp">> \o s : s \in ReadableStates }

NoCsv == [exists |-> FALSE, rows |-> <<>>]

\* open(filename, 'w'): an open that empties the file.
OpenedTruncating(file) == [exists |-> TRUE, rows |-> <<>>]

\* file_handler.py:18: open(filename, 'a') creates the file when it is
\* absent and keeps what it holds.
Opened(file) == [exists |-> TRUE, rows |-> file.rows]

\* file_handler.py:21: "if not self.file_exists and header"
WritesHeader(file_exists, header) == ~file_exists /\ header # <<>>

\* file_handler.py:24-27: the row is written and flushed.
Appended(file, row) == [file EXCEPT !.rows = Append(@, row)]

RowsOf(written) == [i \in 1..Len(written) |-> written[i].row]

InitLog ==
    /\ csv_file = NoCsv
    /\ csv_logger = "none"
    /\ csv_written = <<>>
    /\ csv_sessions = 0

\* file_handler.py:8-22: CsvLogger.__init__
CsvOpen ==
    /\ csv_logger \in {"none", "closed", "killed"}
    /\ csv_sessions < MaxSessions
    /\ LET file_exists == csv_file.exists             \* line 17, before the open
       IN  csv_file' = IF WritesHeader(file_exists, Header)
                       THEN Appended(Opened(csv_file), Header)
                       ELSE Opened(csv_file)
    /\ csv_logger' = "open"
    /\ csv_sessions' = csv_sessions + 1
    /\ UNCHANGED <<csv_written, vars_main, vars_rec, vars_mix, vars_wait, vars_blit>>

\* file_handler.py:24-27: write_row
CsvWriteRow ==
    /\ csv_logger = "open"
    /\ Len(csv_written) < MaxCsvRows
    /\ \E row \in DataRows :
        /\ csv_file' = Appended(csv_file, row)
        /\ csv_written' = Append(csv_written, [session |-> csv_sessions, row |-> row])
    /\ UNCHANGED <<csv_logger, csv_sessions,
                   vars_main, vars_rec, vars_mix, vars_wait, vars_blit>>

\* file_handler.py:29-31: close
CsvClose ==
    /\ csv_logger = "open"
    /\ csv_logger' = "closed"
    /\ UNCHANGED <<csv_file, csv_written, csv_sessions,
                   vars_main, vars_rec, vars_mix, vars_wait, vars_blit>>

\* The process ends without close(); every row was flushed when written.
CsvKill ==
    /\ csv_logger = "open"
    /\ csv_logger' = "killed"
    /\ UNCHANGED <<csv_file, csv_written, csv_sessions,
                   vars_main, vars_rec, vars_mix, vars_wait, vars_blit>>

----------------------------------------------------------------------------
\* files.py: wait_until_active.  Its clock counts ticks from the call; the
\* count stops at ClockEnd, past every deadline.

Timeouts == {0, 1, MaxTimeout}
ClockEnd == MaxTimeout + 3
WaitPollsEnd == MaxTimeout + 4

\* What meta.get("state") can be after a poll (files.py:179-180): a state of
\* the Files API, or None when the object has no state.
FileStates == {"PROCESSING", "ACTIVE", "FAILED", "DELETING", "DELETED", None}

\* time.sleep(poll_s) returns after poll_s or later; the call of
\* client.files.get takes some time or none that the clock shows.
SleepTimes == {1, 2}
GetTimes == {0, 1}

NoResult == [kind |-> "none", state |-> None, polled_at |-> 0]

InitWait ==
    /\ wpc = "poll"
    /\ wclock = 0
    /\ wdeadline \in Timeouts          \* files.py:172
    /\ wstate = None
    /\ wpolls = 0
    /\ wresult = NoResult

\* A wait that never times out.
TimedOutNever(clock, deadline) == FALSE

\* files.py:187
TimedOut(clock, deadline) == clock > deadline

\* A loop body without the test of line 185.
OutcomeNoTerminal(state, clock, deadline) ==
    IF state = "ACTIVE" THEN "return"
    ELSE IF TimedOut(clock, deadline) THEN "timeout"
    ELSE "sleep"

\* files.py:183-189, the tests in their order.
Outcome(state, clock, deadline) ==
    IF state = "ACTIVE" THEN "return"
    ELSE IF state \in {"FAILED", "DELETING", "DELETED"} THEN "terminal"
    ELSE IF TimedOut(clock, deadline) THEN "timeout"
    ELSE "sleep"

\* files.py:175-188: one poll.  client.files.get returns an object or raises
\* (line 177); time.time() of line 187 is read after the get.
WaitPoll ==
    /\ wpc = "poll"
    /\ \E got \in FileStates \cup {"get_raises"}, d \in GetTimes :
        LET now == Min(wclock + d, ClockEnd)
            out == IF got = "get_raises" THEN "get_failed"
                   ELSE Outcome(got, now, wdeadline)
        IN  /\ wclock' = now
            /\ wstate' = got
            /\ wpolls' = Min(wpolls + 1, WaitPollsEnd)
            /\ wpc' = IF out = "return" THEN "returned"
                      ELSE IF out = "sleep" THEN "sleep" ELSE "raised"
            /\ wresult' = [kind |-> out, state |-> got, polled_at |-> wclock]
    /\ UNCHANGED <<wdeadline, vars_main, vars_rec, vars_mix, vars_log, vars_blit>>

\* files.py:189
WaitSleep ==
    /\ wpc = "sleep"
    /\ \E d \in SleepTimes : wclock' = Min(wclock + d, ClockEnd)
    /\ wpc' = "poll"
    /\ UNCHANGED <<wdeadline, wstate, wpolls, wresult,
                   vars_main, vars_rec, vars_mix, vars_log, vars_blit>>

----------------------------------------------------------------------------
\* record_frame: the webcam overlay, recording_logic.py:113-117 and
\* recorder.py:109-115.  The frame has new_height rows and new_width columns,
\* the resized webcam image webcam_h rows and webcam_w columns.

Max(a, b) == IF a >= b THEN a ELSE b

\* Python's reading of a slice bound i on an axis of n entries: a negative
\* bound counts from the end, and every bound is clamped to 0..n.
SliceBound(i, n) == IF i < 0 THEN Max(i + n, 0) ELSE Min(i, n)

\* The entries that the slice start:stop selects.
SliceIndices(start, stop, n) ==
    { k \in 0..(n - 1) : SliceBound(start, n) <= k /\ k < SliceBound(stop, n) }

\* numpy assigns an axis of src entries to a slice of dst entries when they
\* are as many, or when src is 1 (broadcast); otherwise it raises ValueError.
Fits(src, dst) == src = dst \/ src = 1

Blit(in) ==
    LET y_offset == WEBCAM_MARGIN
        x_offset == in.new_width - in.webcam_w - WEBCAM_MARGIN
        rws == SliceIndices(y_offset, y_offset + in.webcam_h, in.new_height)
        cols == SliceIndices(x_offset, x_offset + in.webcam_w, in.new_width)
    IN  IF Fits(in.webcam_h, Cardinality(rws)) /\ Fits(in.webcam_w, Cardinality(cols))
        THEN [kind |-> "done", raised |-> "none", rows |-> rws, cols |-> cols,
              appended |-> TRUE]
        ELSE [kind |-> "done", raised |-> "ValueError", rows |-> {}, cols |-> {},
              appended |-> FALSE]

InitBlit ==
    /\ blit_in \in [new_width : 1..MaxDim, new_height : 1..MaxDim,
                     webcam_w : 1..MaxDim, webcam_h : 1..MaxDim]
    /\ blit_out = [kind |-> "pending"]

\* One capture with a webcam frame, up to the append of line 130.
BlitOverlay ==
    /\ blit_out.kind = "pending"
    /\ blit_out' = Blit(blit_in)
    /\ UNCHANGED <<blit_in, vars_main, vars_rec, vars_mix, vars_log, vars_wait>>

----------------------------------------------------------------------------
\* The specification.  A behaviour runs one part: main.py with its audio
\* thread, a ScreenRecorder with its caller, a mixer on one pair of chunks,
\* the CsvLogger over its sessions, one call of wait_until_active, or one
\* webcam overlay.  The variables of the other parts stay parked, and no action of
\* a parked part is enabled.

ParkedMain ==
    /\ pc = "unused" /\ since_frame = 0 /\ last_state = NoState
    /\ recording_started = FALSE /\ video_frames = <<>> /\ rows = <<>>
    /\ log_open = FALSE /\ webcam = "none" /\ stop_recording_flag = FALSE
    /\ exc = "none" /\ output = NoOutput /\ apc = "unused" /\ temp_audio = NoFile
    /\ pcm_data = Skip /\ poll = NoPoll /\ valid_obs = NoState /\ changes = 0
    /\ audio_log = NoAudioLog

ParkedRec ==
    /\ rec = NewRecorder(FALSE, "none", FALSE) /\ rthreads = <<>>
    /\ rcaller = "unused" /\ rfile = NoFile
    /\ before = Fields(NewRecorder(FALSE, "none", FALSE), <<>>)
    /\ last_call = [name |-> "unused", n |-> 0, raised |-> "none"]
    /\ routput = NoOutput

ParkedMix ==
    /\ mix_in = [impl |-> "unused"] /\ mix_out = [kind |-> "unused"]

ParkedLog ==
    /\ csv_file = NoCsv /\ csv_logger = "unused" /\ csv_written = <<>>
    /\ csv_sessions = 0

ParkedWait ==
    /\ wpc = "unused" /\ wclock = 0 /\ wdeadline = 0 /\ wstate = None
    /\ wpolls = 0 /\ wresult = NoResult

ParkedBlit ==
    /\ blit_in = [kind |-> "unused"] /\ blit_out = [kind |-> "unused"]

Init ==
    \/ InitMain /\ ParkedRec /\ ParkedMix /\ ParkedLog /\ ParkedWait /\ ParkedBlit
    \/ InitRec /\ ParkedMain /\ ParkedMix /\ ParkedLog /\ ParkedWait /\ ParkedBlit
    \/ InitMix /\ ParkedMain /\ ParkedRec /\ ParkedLog /\ ParkedWait /\ ParkedBlit
    \/ InitLog /\ ParkedMain /\ ParkedRec /\ ParkedMix /\ ParkedWait /\ ParkedBlit
    \/ InitWait /\ ParkedMain /\ ParkedRec /\ ParkedMix /\ ParkedLog /\ ParkedBlit
    \/ InitBlit /\ ParkedMain /\ ParkedRec /\ ParkedMix /\ ParkedLog /\ ParkedWait

Next ==
    \/ PollTransition
    \/ PollCadence
    \/ Sleep
    \/ Interrupt
    \/ SetStopFlag
    \/ ReleaseWebcam
    \/ JoinAudio
    \/ CloseLog
    \/ Encode
    \/ AudioSetup
    \/ AudioTest
    \/ AudioRead
    \/ AudioWrite
    \/ start_recording
    \/ stop_recording
    \/ stop_recording_joined
    \/ record_frame
    \/ save_recording
    \/ RecAudioThread
    \/ MixChunks
    \/ CsvOpen
    \/ CsvWriteRow
    \/ CsvClose
    \/ CsvKill
    \/ WaitPoll
    \/ WaitSleep
    \/ BlitOverlay

Spec == Init /\ [][Next]_vars

\* An audio thread runs whenever it can (its blocking reads return or raise),
\* and so does a thread that waits in join() once the join can return.  In
\* wait_until_active every get and every sleep returns.
FairSpec ==
    /\ Spec
    /\ WF_vars(AudioThread) /\ WF_vars(Finally)
    /\ WF_vars(RecAudioThread) /\ WF_vars(stop_recording_joined)
    /\ WF_vars(WaitPoll) /\ WF_vars(WaitSleep)

----------------------------------------------------------------------------
\* The claims.

\* C1: start_recording called while is_recording is True changes nothing:
\* is_recording, video_frames, audio_thread and stop_event keep their values
\* and no further audio thread is started.
C1_StartWhileRecordingIsNoOp ==
    (last_call.name = "start_recording" /\ before.is_recording)
        => Fields(rec, rthreads) = before

C1_Witness ==
    /\ last_call.name = "start_recording"
    /\ before.is_recording
    /\ before.audio_thread # 0
    /\ Len(before.video_frames) > 0

\* C2: a poll writes a row if and only if the state observed differs from
\* last_state and its application is not None; so there are as many rows as
\* changes of the readable observation, the last row is the latest readable
\* observation, and no two consecutive rows are equal.
C2_RowsAreTransitions ==
    /\ poll.stage # "none"
          => (poll.logged <=> (poll.obs # poll.prev /\ poll.obs[1] # None))
    /\ Len(rows) = changes
    /\ rows # <<>> => rows[Len(rows)] = valid_obs
    /\ \A i \in 1..(Len(rows) - 1) : rows[i] # rows[i + 1]

C2_Witness ==
    /\ Len(rows) = 2
    /\ poll.n = 3
    /\ poll.stage = "transition"
    /\ poll.obs[1] # None
    /\ ~poll.logged

\* C3: a poll that observes the application None writes no row, leaves
\* last_state and recording_started as they were and calls record_frame for
\* no transition.
C3_UnreadablePollIsNoTransition ==
    (poll.stage # "none" /\ poll.obs[1] = None)
        => /\ ~poll.logged
           /\ ~poll.transition
           /\ last_state = poll.prev
           /\ recording_started = poll.started
           /\ (poll.stage = "transition" => poll.captures = 0)
           /\ (~poll.due => poll.captures = 0)

C3_Witness ==
    /\ poll.stage = "cadence"
    /\ poll.obs[1] = None
    /\ poll.prev # NoState
    /\ Len(rows) = 1
    /\ poll.n = 2

\* C4: record_frame is called at most once in every iteration of the loop.
C4_AtMostOneCapturePerPoll == poll.captures <= 1

\* C5: once recording has started, a poll without a transition that finds
\* 1.0 s or more gone since last_frame_time calls record_frame exactly once and
\* sets last_frame_time to its own time; so no iteration that reaches its sleep
\* leaves a frame 1.0 s or more overdue.
C5_CadenceCaptures ==
    /\ (poll.stage = "cadence" /\ ~poll.transition /\ poll.due)
          => (poll.captures = 1 /\ since_frame = Later(0, poll.took))
    /\ (pc = "sleep" /\ recording_started)
          => (poll.captures >= 1 \/ since_frame < CadenceTicks)

C5_Witness ==
    /\ pc = "sleep"
    /\ poll.stage = "cadence"
    /\ ~poll.transition
    /\ poll.due
    /\ poll.captures = 1
    /\ Len(video_frames) >= 2
    /\ Len(rows) = 1

\* C6: on every way out of the loop, the encoding begins only after the stop
\* flag is set and the audio thread has ended with its file closed.
C6_EncodeAfterJoin ==
    (pc \in {"close_log", "encode", "done", "raised"} \/ output.status # "none")
        => (stop_recording_flag /\ apc = "done" /\ ~temp_audio.open)

C6_Witness ==
    /\ pc = "encode"
    /\ exc = "OSError"
    /\ video_frames # <<>>
    /\ temp_audio.fresh
    /\ temp_audio.nframes > 0

\* C7: once the stop flag is set, the loop test of an audio thread never
\* passes again, so the thread begins no iteration after the one in flight and
\* writes at most one more chunk; it then ends with its file closed, and the
\* join of the stop path returns.
RecThreadDone == rec.audio_thread = 0 \/ rthreads[rec.audio_thread].pc = "done"

StopRequested == stop_recording_flag \/ rcaller = "joining"

JoinReturned ==
    \/ pc \in {"close_log", "encode", "done", "raised"} /\ apc = "done" /\ ~temp_audio.open
    \/ rcaller = "idle" /\ RecThreadDone /\ ~rfile.open

C7_AudioStopsAfterFlag ==
    /\ [](audio_log.tests = 0 /\ audio_log.writes <= 1)
    /\ [](\A i \in 1..Len(rthreads) :
             rthreads[i].log.tests = 0 /\ rthreads[i].log.writes <= 1)
    /\ (StopRequested ~> JoinReturned)

C7_Witness ==
    /\ pc = "close_log"
    /\ audio_log.writes = 1
    /\ apc = "done"
    /\ ~temp_audio.open

\* C8: after a setup that worked, an iteration that fails in its reads, its
\* mixing or its write leaves the file as it was and goes back to the loop
\* test; and a thread whose setup worked ends only on seeing the flag set.
C8_ChunkFailureKeepsLooping ==
    /\ [][(apc \in {"reading", "write"} /\ apc' # apc /\ audio_log'.chunk = "failed")
             => (apc' = "test" /\ temp_audio' = temp_audio)]_vars
    /\ [][\A i \in 1..Len(rthreads) :
             (rthreads[i].pc \in {"reading", "write"}
              /\ rthreads'[i].pc # rthreads[i].pc
              /\ rthreads'[i].log.chunk = "failed")
                 => (rthreads'[i].pc = "test" /\ rfile' = rfile)]_vars
    /\ []((apc = "done" /\ audio_log.setup_ok) => audio_log.exit_flag)
    /\ [](\A i \in 1..Len(rthreads) :
             (rthreads[i].pc = "done" /\ rthreads[i].log.setup_ok)
                 => rthreads[i].log.exit_flag)

C8_Witness ==
    /\ apc = "test"
    /\ audio_log.chunk = "failed"
    /\ temp_audio.nframes > 0
    /\ ~stop_recording_flag

\* C9: for chunks of a and b frames the mixer writes exactly min(a, b) frames,
\* each the average of the two aligned input samples, and nothing when
\* min(a, b) or the common channel count is 0.  A mono chunk mixed with a
\* wider one may be aligned either way: channel c of the output is the
\* average of the channels c of the chunks cut to the common channel count, or
\* of the mono sample and channel c of the wider chunk.
Quantized(x, y) == ToInt16(Clip((x + y) \div 2))

MixedSamples(in, i, c) ==
    LET l == in.loopback_data
        m == in.mic_data
        cc == IF Min(l.ch, m.ch) = 1 THEN 1 ELSE c
    IN  { Quantized(l.data[i][cc], m.data[i][cc]),
          Quantized(l.data[i][IF l.ch = 1 THEN 1 ELSE c],
                    m.data[i][IF m.ch = 1 THEN 1 ELSE c]) }

WrittenSamples(out) == IF out.kind = "block" THEN Interleaved(out.block) ELSE <<>>

C9_MixWritesOverlap ==
    mix_out.kind \notin {"pending", "unused"} =>
        LET k == Min(mix_in.loopback_data.n, mix_in.mic_data.n)
            common == Min(mix_in.loopback_data.ch, mix_in.mic_data.ch)
        IN  IF k = 0 \/ common = 0
            THEN WrittenSamples(mix_out) = <<>>
            ELSE /\ Len(WrittenSamples(mix_out)) = 2 * k
                 /\ \A i \in 1..k, c \in 1..2 :
                       WrittenSamples(mix_out)[2 * (i - 1) + c] \in MixedSamples(mix_in, i, c)

\* C10: every block written to the file has exactly two channels.
C10_BlocksAreStereo ==
    (mix_out.kind = "block" /\ WrittenSamples(mix_out) # <<>>) => mix_out.block.ch = 2

\* C11: the muxer is never given an empty frame sequence: an encode that finds
\* no frames is skipped, writes no output and leaves the temporary audio file
\* as it was, in start_logging_and_recording and in save_recording.
SaveStep == last_call'.name = "save_recording" /\ last_call'.n # last_call.n

EncodeStep == pc = "encode" /\ pc' # pc

C11_EmptySessionSkipsMux ==
    /\ [](output.status \in {"saved", "failed"} => output.frames # <<>>)
    /\ [](routput.status \in {"saved", "failed"} => routput.frames # <<>>)
    /\ [][(EncodeStep /\ video_frames = <<>>)
             => (output'.status = "skipped" /\ temp_audio' = temp_audio)]_vars
    /\ [][(SaveStep /\ rec.video_frames = <<>>)
             => (routput'.status = "skipped" /\ rfile' = rfile)]_vars

C11_Witness ==
    /\ pc = "done"
    /\ output.status = "skipped"
    /\ video_frames = <<>>
    /\ temp_audio.exists
    /\ temp_audio.fresh

\* C12: the temporary audio file is deleted exactly by an encode whose mux
\* attached it and succeeded; a mux that fails leaves it as it was, and no
\* other step deletes it.
Deleted(file, file2) == file.exists /\ ~file2.exists

C12_TempAudioDeletedOnSuccess ==
    /\ [][EncodeStep
             => /\ Deleted(temp_audio, temp_audio')
                     <=> (output'.status = "saved" /\ output'.audio)
                /\ output'.status # "saved" => temp_audio' = temp_audio]_vars
    /\ [][Deleted(temp_audio, temp_audio') => EncodeStep]_vars
    /\ [][SaveStep
             => /\ Deleted(rfile, rfile')
                     <=> (routput'.status = "saved" /\ routput'.audio)
                /\ routput'.status # "saved" => rfile' = rfile]_vars
    /\ [][Deleted(rfile, rfile') => SaveStep]_vars

C12_Witness ==
    /\ pc \in {"done", "raised"}
    /\ output.status = "failed"
    /\ output.audio
    /\ temp_audio.exists
    /\ temp_audio.fresh

\* C13: an encode attaches an audio track if and only if the temporary audio
\* file is present and holds at least one sample frame; a file the audio
\* thread opened and never wrote to gives a video-only output.
C13_AudioAttachedIffNonEmpty ==
    /\ output.status \in {"saved", "failed"} => (output.audio <=> output.nframes > 0)
    /\ routput.status \in {"saved", "failed"} => (routput.audio <=> routput.nframes > 0)

\* C14: when a device call of the audio setup raises (the loopback is found,
\* acquiring the microphone raises), the thread ends without having created
\* the file, and the encode of that session attaches no audio.
C14_MicFailureEncodesVideoOnly ==
    audio_log.setup = "raises"
        => /\ apc = "done"
           /\ ~temp_audio.fresh
           /\ output.status \in {"saved", "failed"} => ~output.audio

\* C15: with no webcam, no capture raises for want of it and every capture
\* that returns has appended a frame, in start_logging_and_recording and in
\* ScreenRecorder.record_frame.
C15_NoWebcamStillCaptures ==
    /\ (webcam = "none" /\ poll.transition)
          => /\ exc # "UnboundLocalError"
             /\ exc = "none" => video_frames # <<>>
    /\ (rec.webcam = "none" /\ rec.screen_available
        /\ last_call.name = "record_frame" /\ last_call.raised = "none")
          => Len(rec.video_frames) = Len(before.video_frames) + 1

\* C16: a screen grab that fails raises nothing out of record_frame: the
\* loop of start_logging_and_recording is never left with the grab's error,
\* and no call of ScreenRecorder.record_frame raises it.
C16_GrabFailureSkipsTick ==
    /\ exc # "OSError"
    /\ last_call.raised # "OSError"

\* C17: the frames given to the muxer are the frames appended before the
\* stop, in order, and a capture made after stop_recording has returned
\* appends nothing.
C17_FramesAreThoseBeforeStop ==
    /\ output.status \in {"saved", "failed"} => output.frames = video_frames
    /\ (last_call.name = "save_recording" /\ routput.status \in {"saved", "failed"})
          => routput.frames = rec.video_frames
    /\ (last_call.name = "record_frame" /\ before.stop_event /\ ~before.is_recording)
          => rec.video_frames = before.video_frames

\* C18: a webcam that was opened is released exactly once by the end of the
\* session: once the stop path has passed its release the handle is released,
\* and no handle is released twice.
C18_WebcamReleasedOnce ==
    /\ pc \in {"join", "close_log", "encode", "done", "raised"} => webcam # "open"
    /\ (last_call.name = "stop_recording" /\ before.is_recording /\ rcaller = "idle"
        /\ rec.webcam # "none")
          => rec.releases >= 1
    /\ rec.releases <= 1

\* C19: until the first valid transition has set recording_started, no audio
\* thread runs in start_logging_and_recording and the temporary audio file is
\* neither created nor written.
C19_AudioStartsWithRecording ==
    (pc # "unused" /\ ~recording_started)
        => /\ apc \notin {"setup", "test", "reading", "write"}
           /\ ~temp_audio.fresh

\* C20: every start_recording that enters the recording state leaves an
\* empty frame sequence.
C20_StartBeginsEmpty ==
    (last_call.name = "start_recording" /\ ~before.is_recording /\ rec.is_recording)
        => rec.video_frames = <<>>

\* C21: a recorder built without a display never records: is_recording stays
\* False, video_frames stays empty, no audio thread is started and
\* save_recording never reaches the muxer.
C21_NoDisplayNoRecording ==
    (rcaller # "unused" /\ ~rec.screen_available)
        => /\ ~rec.is_recording
           /\ rec.video_frames = <<>>
           /\ rec.audio_thread = 0
           /\ rthreads = <<>>
           /\ routput.status \in {"none", "skipped"}

C21_Witness ==
    /\ ~rec.screen_available
    /\ rec.sc
    /\ last_call.name = "start_recording"
    /\ last_call.n >= 3
    /\ routput.status = "skipped"

\* C22: a mux that fails raises nothing out of save_recording or out of the
\* final encoding of start_logging_and_recording: a session ended by Ctrl+C
\* still returns normally, with the log closed before the encode and every
\* row written still in it.
C22_EncodeFailureIsCaught ==
    /\ output.status = "failed"
          => /\ exc = "KeyboardInterrupt" => pc = "done"
             /\ ~log_open
             /\ Len(rows) = changes
    /\ pc = "encode" => ~log_open
    /\ (last_call.name = "save_recording" /\ routput.status = "failed")
          => last_call.raised = "none"

C22_Witness ==
    /\ output.status = "failed"
    /\ exc = "KeyboardInterrupt"
    /\ pc = "done"
    /\ Len(rows) = 2

\* C23: over any sequence of CsvLogger sessions on one file name the header
\* is written exactly once, as the first row, when the file is created, and
\* every row written in an earlier session is still in the file, in order.
C23_HeaderOnceHistoryKept ==
    /\ csv_file.exists
          => /\ csv_file.rows # <<>>
             /\ csv_file.rows[1] = Header
             /\ Tail(csv_file.rows) = RowsOf(csv_written)
    /\ ~csv_file.exists => (csv_written = <<>> /\ csv_sessions = 0)

C23_Witness ==
    /\ csv_sessions = MaxSessions
    /\ csv_logger = "open"
    /\ Len(csv_written) >= 2
    /\ csv_written[1].session = 1
    /\ csv_written[Len(csv_written)].session = MaxSessions

\* C24: wait_until_active returns only when the most recent poll gave
\* ACTIVE; it has raised as soon as a poll gives FAILED, DELETING or DELETED,
\* or a poll made after the deadline gives a state other than ACTIVE.
C24_ReturnsOnlyActive ==
    /\ wpc = "returned" => (wstate = "ACTIVE" /\ wresult.state = "ACTIVE")
    /\ (wpolls > 0 /\ wstate = "ACTIVE") => wpc = "returned"
    /\ (wpolls > 0 /\ wstate \in {"FAILED", "DELETING", "DELETED"})
          => (wpc = "raised" /\ wresult.kind = "terminal")
    /\ (wpolls > 0 /\ wresult.polled_at > wdeadline /\ wstate # "ACTIVE")
          => wpc = "raised"

C24_Witness ==
    /\ wpc = "raised"
    /\ wresult.kind = "terminal"
    /\ wstate = "DELETING"
    /\ wpolls = 2
    /\ wclock <= wdeadline

\* C25: wait_until_active ends: it polls at least once, even with a timeout
\* of 0; it times out only on a poll that gave neither ACTIVE nor a terminal
\* state; a poll made after the deadline is the last one; the polls are
\* bounded by the timeout; and every call returns or raises.
C25_WaitTerminates ==
    /\ [](wpc \in {"returned", "raised"} => wpolls >= 1)
    /\ [](wresult.kind = "timeout"
            => /\ wclock > wdeadline
               /\ wstate \notin {"ACTIVE", "FAILED", "DELETING", "DELETED"})
    /\ [](wresult.polled_at > wdeadline => wpc \in {"returned", "raised"})
    /\ [](wpolls <= wdeadline + 2)
    /\ (wpc \in {"poll", "sleep"} ~> wpc \in {"returned", "raised"})

C25_Witness ==
    /\ wdeadline = 0
    /\ wpc = "raised"
    /\ wresult.kind = "timeout"
    /\ wpolls = 2
    /\ wstate = "PROCESSING"

\* C26: every frame appended carries the timestamp, with or without a
\* webcam frame.
C26_EveryFrameStamped ==
    /\ \A i \in 1..Len(video_frames) : video_frames[i].stamp
    /\ \A i \in 1..Len(rec.video_frames) : rec.video_frames[i].stamp

\* C27: for all sizes of the frame and of the overlay, the overlay is
\* written to exactly the part of its rectangle that lies inside the frame,
\* nothing is raised and the frame is appended.
C27_OverlayClipped ==
    blit_out.kind = "done"
        => LET x_offset == blit_in.new_width - blit_in.webcam_w - WEBCAM_MARGIN
               y_offset == WEBCAM_MARGIN
           IN  /\ blit_out.raised = "none"
               /\ blit_out.appended
               /\ blit_out.rows = { k \in 0..(blit_in.new_height - 1) :
                                      y_offset <= k /\ k < y_offset + blit_in.webcam_h }
               /\ blit_out.cols = { k \in 0..(blit_in.new_width - 1) :
                                      x_offset <= k /\ k < x_offset + blit_in.webcam_w }

\* C28: over all start_recording and stop_recording calls of one caller at
\* most one audio thread is alive; none is alive when is_recording is False
\* and no call is in progress; and a stop_recording while not recording
\* changes nothing.
Alive == { i \in 1..Len(rthreads) : rthreads[i].pc # "done" }

C28_OneAudioThread ==
    /\ [](Cardinality(Alive) <= 1)
    /\ []((rcaller = "idle" /\ ~rec.is_recording) => Alive = {})
    /\ [][(last_call'.name = "stop_recording" /\ last_call'.n # last_call.n
           /\ ~rec.is_recording)
             => (rec' = rec /\ rthreads' = rthreads /\ rfile' = rfile
                 /\ rcaller' = rcaller)]_vars

C28_Witness ==
    /\ Len(rthreads) = 2
    /\ rthreads[1].pc = "done"
    /\ rthreads[2].pc = "reading"
    /\ rec.is_recording
    /\ rec.audio_thread = 2

\* C29: save_recording attaches the temporary audio file, and deletes it,
\* only when no audio thread is in its loop with the file open.
C29_SaveOnlyAfterAudioEnds ==
    (last_call.name = "save_recording" /\ routput.status \in {"saved", "failed"}
     /\ routput.audio)
        => \A i \in 1..Len(rthreads) : rthreads[i].pc \notin {"test", "reading", "write"}

\* C30: an encode attaches audio only when an audio thread of the same
\* session created the temporary file; a session whose audio setup failed, or
\* a recorder that started no audio thread, is encoded video-only.
C30_AttachedAudioIsOwn ==
    /\ (output.status \in {"saved", "failed"} /\ output.audio) => audio_log.setup_ok
    /\ (routput.status \in {"saved", "failed"} /\ routput.audio)
          => \E i \in 1..Len(rthreads) : rthreads[i].log.setup_ok

====
